---- MODULE Spec2Model ----
(***************************************************************************)
(* Model of src/main.py: the /handle_task endpoint, its GitHub helpers and *)
(* the deferred evaluation callback, against a content store that behaves  *)
(* like the GitHub REST API at the calls the program makes.                *)
(*                                                                         *)
(* Text is a sequence of Unicode code points, file content a sequence of   *)
(* bytes.  The fixed wording of the generated documents is abbreviated to  *)
(* a few marker characters; everything interpolated into them is kept.     *)
(***************************************************************************)
EXTENDS Integers, Sequences, FiniteSets, TLC

\* ------------------------------------------------------- process settings
\* SECRET, read from the environment at start-up.
SECRET == "s3cret"

\* ----------------------------------------------------------------- inputs
Workers == {"w1", "w2"}

Secrets == {SECRET, "wrong"}
Rounds == {1, 2, 3}
Emails == {"a@example.com"}
Tasks == {<<116>>}
\* a nonce of eight characters and one of nine with the same first eight
Nonces == {<<49, 50, 51, 52, 53, 54, 55, 56>>,
           <<49, 50, 51, 52, 53, 54, 55, 56, 57>>}
\* the brief holds a character outside ASCII
Briefs == {<<66, 233>>}
AttachmentLists == {<<>>, <<[url |-> <<100>>]>>, <<[name |-> <<110>>]>>}
EvaluationUrls == {"https://eval.example/notify"}

TaskPayload ==
  [email : Emails, secret : Secrets, task : Tasks, round : Rounds,
   brief : Briefs, evaluation_url : EvaluationUrls,
   attachments : AttachmentLists, nonce : Nonces]

NoPayload == [round |-> 0]

\* ------------------------------------------------------- text conversions
\* str.encode("utf-8") for code points below 2048
Utf8Char(c) ==
  IF c < 128 THEN <<c>> ELSE <<192 + (c \div 64), 128 + (c % 64)>>

RECURSIVE Utf8Encode(_)
Utf8Encode(s) ==
  IF s = <<>> THEN <<>> ELSE Utf8Char(Head(s)) \o Utf8Encode(Tail(s))

\* bytes.decode("utf-8") for the same range
RECURSIVE Utf8Decode(_)
Utf8Decode(b) ==
  IF b = <<>> THEN <<>>
  ELSE IF b[1] < 128 THEN <<b[1]>> \o Utf8Decode(Tail(b))
  ELSE <<(b[1] - 192) * 64 + (b[2] - 128)>> \o Utf8Decode(Tail(Tail(b)))

\* the base64 alphabet: value 0..63 to its ASCII character
B64Char(v) ==
  IF v < 26 THEN 65 + v
  ELSE IF v < 52 THEN 97 + (v - 26)
  ELSE IF v < 62 THEN 48 + (v - 52)
  ELSE IF v = 62 THEN 43 ELSE 47

IsB64Char(c) ==
  \/ (c >= 65 /\ c <= 90) \/ (c >= 97 /\ c <= 122)
  \/ (c >= 48 /\ c <= 57) \/ c = 43 \/ c = 47

B64Value(c) ==
  IF c >= 65 /\ c <= 90 THEN c - 65
  ELSE IF c >= 97 /\ c <= 122 THEN c - 97 + 26
  ELSE IF c >= 48 /\ c <= 57 THEN c - 48 + 52
  ELSE IF c = 43 THEN 62 ELSE 63

\* base64.b64encode(bytes).decode("utf-8"): the characters of the encoding
RECURSIVE b64encode(_)
b64encode(b) ==
  IF Len(b) = 0 THEN <<>>
  ELSE IF Len(b) = 1 THEN
    <<B64Char(b[1] \div 4), B64Char((b[1] % 4) * 16), 61, 61>>
  ELSE IF Len(b) = 2 THEN
    <<B64Char(b[1] \div 4), B64Char((b[1] % 4) * 16 + (b[2] \div 16)),
      B64Char((b[2] % 16) * 4), 61>>
  ELSE
    <<B64Char(b[1] \div 4), B64Char((b[1] % 4) * 16 + (b[2] \div 16)),
      B64Char((b[2] % 16) * 4 + (b[3] \div 64)), B64Char(b[3] % 64)>>
    \o b64encode(SubSeq(b, 4, Len(b)))

\* the 6-bit values of the alphabet characters of s; base64.b64decode drops
\* every other character (line breaks) and stops at the padding
RECURSIVE B64Values(_)
B64Values(s) ==
  IF s = <<>> \/ Head(s) = 61 THEN <<>>
  ELSE IF IsB64Char(Head(s)) THEN <<B64Value(Head(s))>> \o B64Values(Tail(s))
  ELSE B64Values(Tail(s))

RECURSIVE B64Bytes(_)
B64Bytes(v) ==
  IF Len(v) < 2 THEN <<>>
  ELSE IF Len(v) = 2 THEN <<v[1] * 4 + (v[2] \div 16)>>
  ELSE IF Len(v) = 3 THEN
    <<v[1] * 4 + (v[2] \div 16), (v[2] % 16) * 16 + (v[3] \div 4)>>
  ELSE
    <<v[1] * 4 + (v[2] \div 16), (v[2] % 16) * 16 + (v[3] \div 4),
      (v[3] % 4) * 64 + v[4]>>
    \o B64Bytes(SubSeq(v, 5, Len(v)))

b64decode(s) == B64Bytes(B64Values(s))

\* ------------------------------------------------------------ documents
\* Python's None, distinct from every text
None == <<-1>>

\* truth value of an optional text: None and the empty text are false
Truthy(text) == text # None /\ text # <<>>

\* att['url'] for every attachment (line 92) raises KeyError when one has
\* no 'url' key; the comprehension is evaluated only for a non-empty list
GeneratorRaises(attachments) ==
  \E i \in 1..Len(attachments) : "url" \notin DOMAIN attachments[i]

\* the placeholder page: '<' brief, the number of attachments, the round-2
\* paragraph when existing code was given, '>'
generate_html_with_gemini(brief, attachments, existing_code) ==
  <<60>> \o brief \o <<48 + Len(attachments)>>
  \o (IF Truthy(existing_code) THEN <<50>> ELSE <<>>) \o <<62>>

MIT_LICENSE == <<77, 73, 84>>

GITHUB_USER == "owner"

\* variant: the nonce is not cut
Prefix8_Whole(nonce) == nonce

\* payload.nonce[:8]
Prefix8(nonce) == SubSeq(nonce, 1, IF Len(nonce) < 8 THEN Len(nonce) ELSE 8)

\* f"{payload.task}_{payload.nonce[:8]}"
RepoName(task, nonce) == task \o <<95>> \o Prefix8(nonce)

RepoFullName(repo_name) == <<GITHUB_USER, repo_name>>
PagesUrl(repo_name) == <<"github.io", GITHUB_USER, repo_name>>
RepoUrl(repo_name) == <<"github.com", GITHUB_USER, repo_name>>

\* the names the store may be asked for: a task and any part of a nonce
RepoNames ==
  UNION {{t \o <<95>> \o SubSeq(n, 1, k) : k \in 0..Len(n)} :
           t \in Tasks, n \in Nonces}

\* '#' name newline brief 'F' (round 1)
Readme1(repo_name, brief) == <<35>> \o repo_name \o <<10>> \o brief \o <<70>>
\* '#' name 'U' newline brief 'R' (round 2)
Readme2(repo_name, brief) ==
  <<35>> \o repo_name \o <<85, 10>> \o brief \o <<82>>

\* the files a round pushes, in order
FilesOfRound(round) ==
  IF round = 1 THEN <<"index.html", "README.md", "LICENSE">>
  ELSE <<"index.html", "README.md">>

\* the k-th push_file call of the round: path, content and message
PushArgs(pl, html_content, k) ==
  LET repo_name == RepoName(pl.task, pl.nonce)
  IN IF pl.round = 1
     THEN CASE k = 1 -> [file_path |-> "index.html", content |-> html_content,
                         message |-> "feat: Initial app"]
            [] k = 2 -> [file_path |-> "README.md",
                         content |-> Readme1(repo_name, pl.brief),
                         message |-> "docs: Add README"]
            [] OTHER -> [file_path |-> "LICENSE", content |-> MIT_LICENSE,
                         message |-> "chore: Add MIT license"]
     ELSE CASE k = 1 -> [file_path |-> "index.html", content |-> html_content,
                         message |-> "feat: Round 2 update"]
            [] OTHER -> [file_path |-> "README.md",
                         content |-> Readme2(repo_name, pl.brief),
                         message |-> "docs: Update README for Round 2"]

\* ------------------------------------------------------------------ state
VARIABLES
  repos,             \* store: names of the repositories that exist
  files,             \* store: repository -> (path -> bytes) of its files
  head,              \* store: repository -> the commit at its branch head
  pages,             \* store: repositories with static hosting enabled
  pc,                \* worker -> position in handle_task
  payload,           \* worker -> the TaskPayload being handled
  local,             \* worker -> local variables of handle_task / push_file
  resp,              \* worker -> HTTP response of the request
  response_payload,  \* worker -> the EvaluationResponse built, or NoPayload
  background,        \* worker -> background tasks added and not yet run
  delivery,          \* worker -> outcomes of the callback POSTs made
  calls,             \* worker -> store calls of the request, in order
  generated,         \* worker -> generator invocations of the request
  aborted            \* worker -> preceding request, if it died mid-writes

store == <<repos, files, head, pages>>
vars == <<repos, files, head, pages, pc, payload, local, resp,
          response_payload, background, delivery, calls, generated, aborted>>

NoResponse == [status_code |-> 0]
NoLocal == [html_content |-> None, k |-> 0, data |-> [message |-> ""],
            shas |-> <<>>]
NoAbort == [writes |-> 0]

\* the store's version token of a file: the hash of its content
BlobSha(bytes) == [blob |-> bytes]
\* A commit SHA is opaque and fresh.  The commit made by the k-th write of
\* the request a worker is handling is named by the worker and k; the commits
\* of requests that are over are all named Earlier, no request holds their
\* names any more.
CommitSha(p, k) == [commit |-> <<p, k>>]
Earlier == [commit |-> <<"earlier", 0>>]
NoCommit == [commit |-> <<"none", 0>>]

Init ==
  /\ repos = {}
  /\ files = [r \in RepoNames |-> <<>>]
  /\ head = [r \in RepoNames |-> NoCommit]
  /\ pages = {}
  /\ pc = [p \in Workers |-> "idle"]
  /\ payload = [p \in Workers |-> NoPayload]
  /\ local = [p \in Workers |-> NoLocal]
  /\ resp = [p \in Workers |-> NoResponse]
  /\ response_payload = [p \in Workers |-> NoPayload]
  /\ background = [p \in Workers |-> 0]
  /\ delivery = [p \in Workers |-> <<>>]
  /\ calls = [p \in Workers |-> <<>>]
  /\ generated = [p \in Workers |-> <<>>]
  /\ aborted = [p \in Workers |-> NoAbort]

\* ------------------------------------------------------ the store's side
\* Status of each call as the GitHub REST API answers it in the given state.
\* A store fault (any call may meet one) is answered 500 instead.
Answer(status, fault) == IF fault THEN 500 ELSE status

\* POST /user/repos: 201 created, 422 when the name is taken
PostRepoStatus(name) == IF name \in repos THEN 422 ELSE 201

\* GET /repos/{user}/{name}
GetRepoStatus(name) == IF name \in repos THEN 200 ELSE 404

FileExists(name, path) == name \in repos /\ path \in DOMAIN files[name]

\* GET /repos/{user}/{name}/contents/{path}
GetFileStatus(name, path) == IF FileExists(name, path) THEN 200 ELSE 404

\* body of the answer to the GET: for 200 the content in base64, ended by a
\* line break, and the version token
GetFileJson(name, path, status) ==
  IF status = 200
  THEN [content |-> b64encode(files[name][path]) \o <<10>>,
        sha |-> BlobSha(files[name][path])]
  ELSE [message |-> "error"]

\* PUT /repos/{user}/{name}/contents/{path}: a create must carry no token,
\* an update the token of the content it replaces
PutFileStatus(name, path, data) ==
  IF name \notin repos THEN 404
  ELSE IF ~FileExists(name, path)
       THEN (IF "sha" \in DOMAIN data THEN 422 ELSE 201)
  ELSE IF "sha" \notin DOMAIN data THEN 422
  ELSE IF data.sha = BlobSha(files[name][path]) THEN 200
  ELSE 409

\* body of the answer to the PUT
PutFileJson(status, data, sha) ==
  IF status \in {200, 201}
  THEN [commit |-> [sha |-> sha],
        content |-> [sha |-> BlobSha(b64decode(data.content))]]
  ELSE [message |-> "error"]

\* POST /repos/{user}/{name}/pages: 409 when already enabled, 422 while the
\* branch does not exist
PostPagesStatus(name) ==
  IF name \notin repos THEN 404
  ELSE IF name \in pages THEN 409
  ELSE IF head[name] = NoCommit THEN 422
  ELSE 201

\* -------------------------------------------------------- handler pieces
NoData == [message |-> ""]

Call(p, method, path, status, data) ==
  calls' = [calls EXCEPT ![p] =
              Append(@, [method |-> method, path |-> path, status |-> status,
                         token |-> "sha" \in DOMAIN data])]

\* variant: the secret check is skipped
SecretMismatch_Skipped(secret) == FALSE

\* payload.secret != SECRET
SecretMismatch(secret) == secret # SECRET

\* variant: no fallback to the existing repository on 422
CreateOutcome_NoFallback(status_code) ==
  IF status_code = 201 THEN "created" ELSE "failed"

\* create_or_get_repo's reading of the POST status
CreateOutcome(status_code) ==
  IF status_code = 201 THEN "created"
  ELSE IF status_code = 422 THEN "exists"
  ELSE "failed"

\* variant: the GET is tested for 201 like the POST
FetchOutcome_Created(status_code) ==
  IF status_code = 201 THEN "fetched" ELSE "failed"

\* create_or_get_repo's reading of the GET status
FetchOutcome(status_code) == IF status_code = 200 THEN "fetched" ELSE "failed"

\* variant: the body of an answer other than 200 is taken as prior content
ExistingCode_ErrorBody(status_code, json) ==
  IF status_code = 200 THEN Utf8Decode(b64decode(json.content))
  ELSE <<52, 48, 52>>

\* round 2: the prior content taken from the answer to the read of index.html
ExistingCode(status_code, json) ==
  IF status_code = 200 THEN Utf8Decode(b64decode(json.content)) ELSE <<>>

\* variant: the token sent is the hash of the new content
ProbeData_NewContentSha(message, encoded, status_code, json) ==
  IF status_code = 200
  THEN [message |-> message, content |-> encoded,
        sha |-> BlobSha(b64decode(encoded))]
  ELSE [message |-> message, content |-> encoded]

\* variant: the test of the probe's status is inverted
ProbeData_Inverted(message, encoded, status_code, json) ==
  IF status_code = 200
  THEN [message |-> message, content |-> encoded]
  ELSE [message |-> message, content |-> encoded, sha |-> BlobSha(<<>>)]

\* variant: the token of the probe is never put into the body
ProbeData_NoToken(message, encoded, status_code, json) ==
  [message |-> message, content |-> encoded]

\* push_file: the body of the PUT, with the token when the probe found the file
ProbeData(message, encoded, status_code, json) ==
  IF status_code = 200
  THEN [message |-> message, content |-> encoded, sha |-> json.sha]
  ELSE [message |-> message, content |-> encoded]

\* variant: only client-error statuses raise
PushRaises_ClientErrors(status_code) == status_code \in {404, 409, 422}

\* push_file: response.status_code not in [200, 201] raises
PushRaises(status_code) == status_code \notin {200, 201}

\* push_file's return value
PushResult(json) ==
  IF "commit" \in DOMAIN json THEN json.commit.sha
  ELSE IF "content" \in DOMAIN json THEN json.content.sha
  ELSE None

\* enable_github_pages prints, whatever the status, and returns
PagesRaises(status_code) == FALSE

\* final_sha: sha1 in round 1, the result of the index.html push in round 2
FinalSha(round, shas) == shas[1]

\* variant: a failed callback turns the request into a server error
CallbackResult_Propagated(r, outcome) ==
  IF outcome = "sent" THEN r
  ELSE [status_code |-> 500, detail |-> "callback failed"]

\* send_evaluation_response catches every exception, and the response of the
\* request has been returned before the task runs
CallbackResult(r, outcome) == r

Respond(p, r) ==
  /\ resp' = [resp EXCEPT ![p] = r]
  /\ pc' = [pc EXCEPT ![p] = "done"]

\* except Exception as e: raise HTTPException(status_code=500, detail=str(e))
Raise500(p, e) == Respond(p, [status_code |-> 500, detail |-> e])

Generate(p, existing_code) ==
  generated' = [generated EXCEPT ![p] =
                  Append(@, [brief |-> payload[p].brief,
                             attachments |-> payload[p].attachments,
                             existing_code |-> existing_code])]

\* the generator call and what follows it up to the first push_file
GenerateThenPush(p, existing_code) ==
  LET pl == payload[p]
  IN /\ Generate(p, existing_code)
     /\ IF GeneratorRaises(pl.attachments)
        THEN /\ Raise500(p, "KeyError: 'url'")
             /\ UNCHANGED local
        ELSE /\ local' = [local EXCEPT ![p] =
                  [NoLocal EXCEPT
                     !.html_content =
                        generate_html_with_gemini(pl.brief, pl.attachments,
                                                  existing_code),
                     !.k = 1]]
             /\ pc' = [pc EXCEPT ![p] = "push_get"]
             /\ UNCHANGED resp

\* the branch on payload.round once the repository is at hand; the
\* HTTPException(400) of the else branch is raised inside the try block
Dispatch(p) ==
  IF payload[p].round = 1 THEN GenerateThenPush(p, None)
  ELSE IF payload[p].round = 2
  THEN /\ pc' = [pc EXCEPT ![p] = "read_index"]
       /\ UNCHANGED <<local, resp, generated>>
  ELSE /\ Raise500(p, "400: Invalid round")
       /\ UNCHANGED <<local, generated>>

\* variant: the payload carries the truncated nonce of the repository name
EvaluationResponse_ShortNonce(pl, final_sha) ==
  [email |-> pl.email, task |-> pl.task, round |-> pl.round,
   nonce |-> Prefix8(pl.nonce),
   repo_url |-> RepoUrl(RepoName(pl.task, pl.nonce)),
   commit_sha |-> final_sha,
   pages_url |-> PagesUrl(RepoName(pl.task, pl.nonce))]

\* step 4: the EvaluationResponse of the request
EvaluationResponse(pl, final_sha) ==
  [email |-> pl.email, task |-> pl.task, round |-> pl.round,
   nonce |-> pl.nonce,
   repo_url |-> RepoUrl(RepoName(pl.task, pl.nonce)),
   commit_sha |-> final_sha,
   pages_url |-> PagesUrl(RepoName(pl.task, pl.nonce))]

\* steps 4 and 5: build the EvaluationResponse, add the background task and
\* return the acknowledgment
Succeed(p, final_sha) ==
  LET pl == payload[p]
      repo_name == RepoName(pl.task, pl.nonce)
  IN /\ response_payload' = [response_payload EXCEPT ![p] =
           EvaluationResponse(pl, final_sha)]
     /\ background' = [background EXCEPT ![p] = @ + 1]
     /\ Respond(p, [status_code |-> 200,
                    detail |-> [status |-> "success",
                                repo |-> RepoFullName(repo_name)]])

\* number of file writes of the request the store accepted
Landed(p) ==
  Cardinality({i \in 1..Len(calls[p]) :
                 calls[p][i].method = "PUT" /\ calls[p][i].status \in {200, 201}})

\* ----------------------------------------------------------------- steps
\* POST /handle_task arrives: the secret check and the derived names.  The
\* worker takes a request once its previous one and that one's background
\* task are over.
handle_task(p) ==
  /\ pc[p] \in {"idle", "done"}
  /\ background[p] = 0
  /\ \E pl \in TaskPayload :
       /\ payload' = [payload EXCEPT ![p] = pl]
       /\ IF SecretMismatch(pl.secret)
          THEN Respond(p, [status_code |-> 403, detail |-> "Invalid secret"])
          ELSE /\ pc' = [pc EXCEPT ![p] = "create_repo"]
               /\ resp' = [resp EXCEPT ![p] = NoResponse]
  /\ aborted' = [aborted EXCEPT ![p] =
        IF resp[p].status_code = 500 /\ Landed(p) > 0
        THEN [writes |-> Landed(p), payload |-> payload[p]]
        ELSE NoAbort]
  /\ local' = [local EXCEPT ![p] = NoLocal]
  /\ response_payload' = [response_payload EXCEPT ![p] = NoPayload]
  /\ delivery' = [delivery EXCEPT ![p] = <<>>]
  /\ calls' = [calls EXCEPT ![p] = <<>>]
  /\ generated' = [generated EXCEPT ![p] = <<>>]
  /\ UNCHANGED <<store, background>>

\* create_or_get_repo, the POST
create_or_get_repo(p) ==
  /\ pc[p] = "create_repo"
  /\ \E fault \in BOOLEAN :
       LET repo_name == RepoName(payload[p].task, payload[p].nonce)
           status_code == Answer(PostRepoStatus(repo_name), fault)
           outcome == CreateOutcome(status_code)
       IN /\ Call(p, "POST repos", "", status_code, NoData)
          /\ repos' = IF status_code = 201 THEN repos \cup {repo_name}
                      ELSE repos
          /\ IF outcome = "created" THEN Dispatch(p)
             ELSE IF outcome = "exists"
             THEN /\ pc' = [pc EXCEPT ![p] = "get_repo"]
                  /\ UNCHANGED <<local, resp, generated>>
             ELSE /\ Raise500(p, "Failed to create repo")
                  /\ UNCHANGED <<local, generated>>
  /\ UNCHANGED <<files, head, pages, payload, response_payload, background,
                 delivery, aborted>>

\* create_or_get_repo, the GET of the repository that exists
get_repo(p) ==
  /\ pc[p] = "get_repo"
  /\ \E fault \in BOOLEAN :
       LET repo_name == RepoName(payload[p].task, payload[p].nonce)
           status_code == Answer(GetRepoStatus(repo_name), fault)
       IN /\ Call(p, "GET repo", "", status_code, NoData)
          /\ IF FetchOutcome(status_code) = "fetched"
             THEN Dispatch(p)
             ELSE /\ Raise500(p, "Repo exists but inaccessible")
                  /\ UNCHANGED <<local, generated>>
  /\ UNCHANGED <<store, payload, response_payload, background, delivery,
                 aborted>>

\* round 2: fetch the existing index.html and generate the update
read_index(p) ==
  /\ pc[p] = "read_index"
  /\ \E fault \in BOOLEAN :
       LET repo_name == RepoName(payload[p].task, payload[p].nonce)
           status_code == Answer(GetFileStatus(repo_name, "index.html"), fault)
           json == GetFileJson(repo_name, "index.html", status_code)
       IN /\ Call(p, "GET", "index.html", status_code, NoData)
          /\ GenerateThenPush(p, ExistingCode(status_code, json))
  /\ UNCHANGED <<store, payload, response_payload, background, delivery,
                 aborted>>

\* push_file, the probe for the file's version token
push_file_get(p) ==
  /\ pc[p] = "push_get"
  /\ \E fault \in BOOLEAN :
       LET repo_name == RepoName(payload[p].task, payload[p].nonce)
           args == PushArgs(payload[p], local[p].html_content, local[p].k)
           encoded == b64encode(Utf8Encode(args.content))
           status_code == Answer(GetFileStatus(repo_name, args.file_path), fault)
           json == GetFileJson(repo_name, args.file_path, status_code)
       IN /\ Call(p, "GET", args.file_path, status_code, NoData)
          /\ local' = [local EXCEPT ![p].data =
                ProbeData(args.message, encoded, status_code, json)]
  /\ pc' = [pc EXCEPT ![p] = "push_put"]
  /\ UNCHANGED <<store, payload, resp, response_payload, background, delivery,
                 generated, aborted>>

\* the step after the k-th push_file returned sha
AfterPush(p, sha) ==
  LET shas == Append(local[p].shas, sha)
      k == local[p].k
  IN /\ local' = [local EXCEPT ![p].shas = shas, ![p].k = k + 1,
                               ![p].data = NoData]
     /\ IF k < Len(FilesOfRound(payload[p].round))
        THEN /\ pc' = [pc EXCEPT ![p] = "push_get"]
             /\ UNCHANGED <<resp, response_payload, background>>
        ELSE IF payload[p].round = 1
        THEN /\ pc' = [pc EXCEPT ![p] = "pages"]
             /\ UNCHANGED <<resp, response_payload, background>>
        ELSE Succeed(p, FinalSha(payload[p].round, shas))

\* push_file, the PUT; the store lands the write on 200 and 201
push_file_put(p) ==
  /\ pc[p] = "push_put"
  /\ \E fault \in BOOLEAN :
       LET repo_name == RepoName(payload[p].task, payload[p].nonce)
           args == PushArgs(payload[p], local[p].html_content, local[p].k)
           data == local[p].data
           status_code == Answer(PutFileStatus(repo_name, args.file_path, data),
                                 fault)
           commit == CommitSha(p, local[p].k)
           json == PutFileJson(status_code, data, commit)
       IN /\ Call(p, "PUT", args.file_path, status_code, data)
          /\ IF status_code \in {200, 201}
             THEN /\ files' = [files EXCEPT ![repo_name] =
                        (args.file_path :> b64decode(data.content)) @@ @]
                  /\ head' = [r \in RepoNames |->
                        IF r = repo_name THEN commit
                        ELSE IF head[r] = NoCommit THEN NoCommit
                        ELSE Earlier]
             ELSE UNCHANGED <<files, head>>
          /\ IF PushRaises(status_code)
             THEN /\ Raise500(p, "Failed to push")
                  /\ UNCHANGED <<local, response_payload, background>>
             ELSE AfterPush(p, PushResult(json))
  /\ UNCHANGED <<repos, pages, payload, delivery, generated, aborted>>

\* enable_github_pages, then final_sha = sha1
enable_github_pages(p) ==
  /\ pc[p] = "pages"
  /\ \E fault \in BOOLEAN :
       LET repo_name == RepoName(payload[p].task, payload[p].nonce)
           status_code == Answer(PostPagesStatus(repo_name), fault)
       IN /\ Call(p, "POST pages", "", status_code, NoData)
          /\ pages' = IF status_code = 201 THEN pages \cup {repo_name}
                      ELSE pages
          /\ IF PagesRaises(status_code)
             THEN /\ Raise500(p, "Failed to enable Pages")
                  /\ UNCHANGED <<response_payload, background>>
             ELSE Succeed(p, FinalSha(payload[p].round, local[p].shas))
  /\ UNCHANGED <<repos, files, head, payload, local, delivery, generated,
                 aborted>>

\* the background task, run once the response has been returned: the POST to
\* the evaluation URL succeeds, is answered with an error status, or raises
send_evaluation_response(p) ==
  /\ pc[p] = "done"
  /\ background[p] > 0
  /\ \E outcome \in {"sent", "http_error", "raised"} :
       /\ delivery' = [delivery EXCEPT ![p] = Append(@, outcome)]
       /\ resp' = [resp EXCEPT ![p] = CallbackResult(@, outcome)]
  /\ background' = [background EXCEPT ![p] = @ - 1]
  /\ UNCHANGED <<store, pc, payload, local, response_payload, calls,
                 generated, aborted>>

Step(p) ==
  \/ handle_task(p)
  \/ create_or_get_repo(p)
  \/ get_repo(p)
  \/ read_index(p)
  \/ push_file_get(p)
  \/ push_file_put(p)
  \/ enable_github_pages(p)
  \/ send_evaluation_response(p)

\* one worker process: handle_task has no await, so requests are handled
\* one after the other
Next == Step("w1")

Spec == Init /\ [][Next]_vars

TypeOK ==
  /\ repos \subseteq RepoNames
  /\ pages \subseteq repos
  /\ \A p \in Workers : pc[p] \in {"idle", "create_repo", "get_repo",
        "read_index", "push_get", "push_put", "pages", "done"}

\* ------------------------------------------------------------ properties
\* the repository of the request worker p is handling
Repo(p) == RepoName(payload[p].task, payload[p].nonce)

\* the worker has a request at hand, in progress or answered
Active(p) == pc[p] # "idle"

\* the request passed the secret check
Authorized(p) == Active(p) /\ ~SecretMismatch(payload[p].secret)

\* no store call of the request met a store fault
NoFault(p) == \A i \in 1..Len(calls[p]) : calls[p][i].status # 500

\* the request is answered
Answered(p, status_code) == pc[p] = "done" /\ resp[p].status_code = status_code

\* positions in calls[p] of the calls with the given method and path
CallsOf(p, method, path) ==
  {i \in 1..Len(calls[p]) :
     calls[p][i].method = method /\ calls[p][i].path = path}

\* position of the round-2 read of index.html: it follows the repository calls
ReadPos(p) == IF calls[p][1].status = 201 THEN 2 ELSE 3

\* the round-2 request has read index.html
HasRead(p) ==
  /\ Authorized(p)
  /\ payload[p].round = 2
  /\ Len(calls[p]) >= 2
  /\ Len(calls[p]) >= ReadPos(p)

\* C1: for every successful request the commit_sha of the evaluation payload
\* is the branch-head commit of the repository after all writes of the
\* request.
C1_CommitShaIsHead ==
  \A p \in Workers :
    Answered(p, 200) => response_payload[p].commit_sha = head[Repo(p)]

\* C2: a request with a valid secret and a round other than 1 and 2 is
\* answered 400 and makes no call to the content store.
C2_InvalidRoundRejected ==
  \A p \in Workers :
    (Authorized(p) /\ payload[p].round \notin {1, 2}) =>
      /\ calls[p] = <<>>
      /\ pc[p] = "done" => resp[p].status_code = 400

\* C3: in a round-2 request that finds index.html in the repository (the
\* store answering its calls without fault), the generator is invoked with
\* the decoded content of the file as prior content, and the write of
\* index.html carries the version token of the stored content and is
\* accepted as an update.
C3_Round2UpdatesWithToken ==
  \A p \in Workers :
    (HasRead(p) /\ NoFault(p) /\ calls[p][ReadPos(p)].status = 200) =>
      /\ Len(generated[p]) = 1
      /\ Landed(p) = 0 =>
           generated[p][1].existing_code
             = Utf8Decode(files[Repo(p)]["index.html"])
      /\ (pc[p] = "push_put" /\ local[p].k = 1) =>
           /\ "sha" \in DOMAIN local[p].data
           /\ local[p].data.sha = BlobSha(files[Repo(p)]["index.html"])
      /\ \A i \in CallsOf(p, "PUT", "index.html") :
           calls[p][i].token /\ calls[p][i].status = 200

C3_Witness ==
  \E p \in Workers :
    /\ HasRead(p) /\ NoFault(p) /\ calls[p][ReadPos(p)].status = 200
    /\ Answered(p, 200)
    /\ Truthy(generated[p][1].existing_code)
    /\ \E i \in CallsOf(p, "PUT", "index.html") :
         calls[p][i].token /\ calls[p][i].status = 200

\* C4: when the store rejects a file write (a PUT answered with a status
\* other than 200 and 201), the request is answered 500, makes no later
\* call, and no notification is scheduled or sent for it.
C4_RejectedWriteAborts ==
  \A p \in Workers :
    \A i \in 1..Len(calls[p]) :
      (calls[p][i].method = "PUT" /\ calls[p][i].status \notin {200, 201}) =>
        /\ i = Len(calls[p])
        /\ Answered(p, 500)
        /\ response_payload[p].round = 0
        /\ background[p] = 0
        /\ delivery[p] = <<>>

C4_Witness ==
  \E p \in Workers :
    /\ Answered(p, 500)
    /\ Landed(p) > 0
    /\ calls[p][Len(calls[p])].method = "PUT"
    /\ calls[p][Len(calls[p])].status \notin {200, 201}

\* C5: when the pages-activation call is answered with a status that is
\* neither 201 nor 409, the request is answered 500.
C5_PagesFailureIsFatal ==
  \A p \in Workers :
    \A i \in 1..Len(calls[p]) :
      (calls[p][i].method = "POST pages"
         /\ calls[p][i].status \notin {201, 409}) => Answered(p, 500)

\* C6: a round-1 request for a repository that exists already (whatever
\* baseline files it holds, hosting enabled or not) does not fail when the
\* store reports no failure and the generator returns: the creation conflict
\* leads to the fetch of the repository, already enabled hosting counts as
\* success, and the request is answered with success.
C6_Round1ReinvocationSucceeds ==
  \A p \in Workers :
    (/\ Authorized(p) /\ payload[p].round = 1
     /\ ~GeneratorRaises(payload[p].attachments)
     /\ NoFault(p)
     /\ Len(calls[p]) >= 1 /\ calls[p][1].status = 422) =>
      /\ Len(calls[p]) >= 2 =>
           /\ calls[p][2].method = "GET repo"
           /\ calls[p][2].status = 200
      /\ \A i \in CallsOf(p, "POST pages", "") :
           calls[p][i].status \in {201, 409}
      /\ IF pc[p] = "done" THEN resp[p].status_code = 200
         ELSE resp[p] = NoResponse

C6_Witness ==
  \E p \in Workers :
    /\ Answered(p, 200) /\ payload[p].round = 1 /\ NoFault(p)
    /\ calls[p][1].status = 422
    /\ \E i \in CallsOf(p, "POST pages", "") : calls[p][i].status = 409

\* the request follows one that aborted after some of its writes had landed
\* and has the same task, nonce and round
IsRetry(p) ==
  /\ Authorized(p)
  /\ aborted[p].writes > 0
  /\ aborted[p].payload.task = payload[p].task
  /\ aborted[p].payload.nonce = payload[p].nonce
  /\ aborted[p].payload.round = payload[p].round

\* C7: after a request aborted once some of its writes had landed, a retry
\* with the same task, nonce and round that meets no store failure (and
\* whose generator returns) ends in success, every file of the round's file
\* set was written again by the retry and holds the retry's content.
C7_RetrySucceeds ==
  \A p \in Workers :
    (/\ IsRetry(p) /\ NoFault(p)
     /\ ~GeneratorRaises(payload[p].attachments)
     /\ pc[p] = "done") =>
      /\ resp[p].status_code = 200
      /\ local[p].html_content =
           generate_html_with_gemini(payload[p].brief, payload[p].attachments,
                                     generated[p][1].existing_code)
      /\ \A k \in 1..Len(FilesOfRound(payload[p].round)) :
           LET args == PushArgs(payload[p], local[p].html_content, k)
           IN /\ FileExists(Repo(p), args.file_path)
              /\ files[Repo(p)][args.file_path] = Utf8Encode(args.content)
              /\ \E i \in CallsOf(p, "PUT", args.file_path) :
                   calls[p][i].status \in {200, 201}

C7_Witness ==
  \E p \in Workers :
    /\ IsRetry(p) /\ NoFault(p) /\ Answered(p, 200)
    /\ aborted[p].payload = payload[p]
    /\ \E i \in CallsOf(p, "PUT", "index.html") : calls[p][i].status = 200

\* C8: a round-2 request for a repository without index.html takes the prior
\* content as empty, does not turn the not-found into an error, and (the
\* store reporting no failure, the generator returning) is answered with
\* success after it has written index.html and README.md.
C8_Round2WithoutIndex ==
  \A p \in Workers :
    (HasRead(p) /\ NoFault(p) /\ calls[p][ReadPos(p)].status = 404) =>
      /\ generated[p] # <<>>
      /\ generated[p][1].existing_code = <<>>
      /\ ~GeneratorRaises(payload[p].attachments) =>
           IF pc[p] = "done"
           THEN /\ resp[p].status_code = 200
                /\ \E i \in CallsOf(p, "PUT", "index.html") :
                     calls[p][i].status = 201
                /\ \E i \in CallsOf(p, "PUT", "README.md") :
                     calls[p][i].status \in {200, 201}
                /\ FileExists(Repo(p), "index.html")
                /\ FileExists(Repo(p), "README.md")
           ELSE resp[p] = NoResponse

C8_Witness ==
  \E p \in Workers :
    /\ HasRead(p) /\ NoFault(p) /\ calls[p][ReadPos(p)].status = 404
    /\ Answered(p, 200)
    /\ calls[p][Len(calls[p])].method = "PUT"
    /\ calls[p][Len(calls[p])].path = "README.md"

\* C9: a request whose secret is not the configured one is answered 403 and
\* has no side effect: no store call, no generator call, no notification,
\* and the store is left as it was.
C9_BadSecretNoEffect ==
  /\ [](\A p \in Workers :
          (Active(p) /\ payload[p].secret # SECRET) =>
            /\ Answered(p, 403)
            /\ calls[p] = <<>>
            /\ generated[p] = <<>>
            /\ response_payload[p].round = 0
            /\ background[p] = 0
            /\ delivery[p] = <<>>)
  /\ [][\A p \in Workers :
          (Active(p)' /\ payload'[p].secret # SECRET) => store' = store]_vars

C9_Witness ==
  \E p \in Workers :
    /\ Answered(p, 403) /\ payload[p].secret # SECRET
    /\ repos # {}
    /\ calls[p] = <<>>

\* C10: the response of a request does not depend on the delivery of its
\* notification: whether the POST to the evaluation URL succeeds, is
\* answered with an error status or raises, the response stays the success
\* response, and the POST is made once.
C10_DeliveryLeavesResponse ==
  /\ [](\A p \in Workers :
          delivery[p] # <<>> =>
            /\ Answered(p, 200)
            /\ Len(delivery[p]) = 1
            /\ background[p] = 0)
  /\ [][\A p \in Workers :
          (delivery'[p] # delivery[p] /\ delivery'[p] # <<>>) =>
            /\ resp'[p] = resp[p]
            /\ resp[p].status_code = 200]_vars

C10_Witness ==
  \E p \in Workers :
    /\ Answered(p, 200)
    /\ delivery[p] = <<"raised">>

\* positions in calls[p] of the file writes
Puts(p) == {i \in 1..Len(calls[p]) : calls[p][i].method = "PUT"}

\* C11 as stated: no round-1 request issues a file write that carries a prior
\* version token, and no round-2 request issues a file write without one.
C11_RoundFixesCreateOrUpdate ==
  \A p \in Workers :
    Authorized(p) =>
      \A i \in Puts(p) :
        /\ payload[p].round = 1 => ~calls[p][i].token
        /\ payload[p].round = 2 => calls[p][i].token

\* C11, amended: a file write carries a prior version token exactly when the
\* probe of push_file found the file (was answered 200), whatever the round;
\* a round-1 request that created the repository issues only creates, and
\* with a store that reports no failure a write with a token is taken as an
\* update (200) and one without as a create (201).
C11_ProbeFixesCreateOrUpdate ==
  \A p \in Workers :
    Authorized(p) =>
      \A i \in Puts(p) :
        /\ i > 1
        /\ calls[p][i - 1].method = "GET"
        /\ calls[p][i - 1].path = calls[p][i].path
        /\ calls[p][i].token <=> calls[p][i - 1].status = 200
        /\ (payload[p].round = 1 /\ calls[p][1].status = 201) =>
             ~calls[p][i].token
        /\ NoFault(p) =>
             calls[p][i].status = (IF calls[p][i].token THEN 200 ELSE 201)

\* a round-2 request that created index.html, and a round-1 request that
\* updated it, have both been seen: here the first
C11_Witness ==
  \E p \in Workers :
    /\ Answered(p, 200) /\ payload[p].round = 2
    /\ \E i \in Puts(p) :
         /\ calls[p][i].path = "index.html"
         /\ ~calls[p][i].token
         /\ calls[p][i].status = 201

\* the mutating and resolving store calls of the request, in order: the file
\* writes, the pages activation and the read of the branch head, each as
\* <<method, path>> (the probes and the repository calls are left out)
Outline(p) ==
  LET Counts(c) == c.method \in {"PUT", "POST pages", "GET head"}
      kept == SelectSeq(calls[p], Counts)
  IN [i \in 1..Len(kept) |-> <<kept[i].method, kept[i].path>>]

\* C12: a successful round-1 request makes, after the repository
\* reconciliation, exactly three file writes (index.html, README.md, LICENSE
\* in this order), then one pages activation, then one read of the head
\* commit.
C12_Round1CallOrder ==
  \A p \in Workers :
    (Answered(p, 200) /\ payload[p].round = 1) =>
      Outline(p) = << <<"PUT", "index.html">>, <<"PUT", "README.md">>,
                      <<"PUT", "LICENSE">>, <<"POST pages", "">>,
                      <<"GET head", "">> >>

\* the store calls of the request after the repository reconciliation, in
\* order, each as <<method, path>>
AfterReconciliation(p) ==
  [i \in 1..(Len(calls[p]) + 1 - ReadPos(p)) |->
     <<calls[p][i + ReadPos(p) - 1].method, calls[p][i + ReadPos(p) - 1].path>>]

\* the successful round-2 request found the files of a round 1 in place
OnRound1Repository(p) ==
  /\ Answered(p, 200) /\ payload[p].round = 2 /\ NoFault(p)
  /\ calls[p][1].status = 422
  /\ FileExists(Repo(p), "LICENSE")
  /\ \A i \in Puts(p) : calls[p][i].token

\* C13: a successful round-2 request against a repository populated by
\* round 1 makes, after the repository reconciliation, exactly one read of
\* index.html, one write of index.html with the version token, one write of
\* README.md and one read of the head commit, in this order, with no LICENSE
\* write and no pages activation; the generator gets non-empty prior content.
C13_Round2CallOrder ==
  \A p \in Workers :
    OnRound1Repository(p) =>
      /\ AfterReconciliation(p) =
           << <<"GET", "index.html">>, <<"PUT", "index.html">>,
              <<"PUT", "README.md">>, <<"GET head", "">> >>
      /\ Len(generated[p]) = 1
      /\ Truthy(generated[p][1].existing_code)

\* C14: every successful request schedules exactly one notification, which
\* runs only once the response of the request has been produced, and whose
\* payload carries the email, task, round and nonce of the request with the
\* URL of its repository; a request that does not succeed schedules none.
C14_OneNotificationPerSuccess ==
  \A p \in Workers :
    IF Answered(p, 200)
    THEN /\ background[p] + Len(delivery[p]) = 1
         /\ response_payload[p].email = payload[p].email
         /\ response_payload[p].task = payload[p].task
         /\ response_payload[p].round = payload[p].round
         /\ response_payload[p].nonce = payload[p].nonce
         /\ response_payload[p].repo_url = RepoUrl(Repo(p))
    ELSE /\ background[p] = 0
         /\ delivery[p] = <<>>
         /\ response_payload[p].round = 0

\* a request with the nine-character nonce has succeeded and its notification
\* is scheduled and not yet run
C14_Witness ==
  \E p \in Workers :
    /\ Answered(p, 200)
    /\ Len(payload[p].nonce) = 9
    /\ background[p] = 1
    /\ delivery[p] = <<>>

\* the repository key as the claim words it: the task, "_" and the first 8
\* characters of the nonce
ExpectedKey(task, nonce) ==
  task \o <<95>>
       \o [i \in 1..(IF Len(nonce) < 8 THEN Len(nonce) ELSE 8) |-> nonce[i]]

\* C15: the repository key is a function of (task, nonce) only, the task,
\* "_" and the first 8 characters of the nonce: the repository a request
\* creates, writes to and names in its success response and payload is the
\* one of that key, whatever its round, brief, email and attachments, and a
\* request with the task and nonce of an earlier one finds that repository.
C15_RepositoryKey ==
  /\ repos \subseteq {ExpectedKey(pl.task, pl.nonce) : pl \in TaskPayload}
  /\ \A p \in Workers :
       Authorized(p) =>
         LET key == ExpectedKey(payload[p].task, payload[p].nonce)
         IN /\ (Len(calls[p]) >= 1 /\ calls[p][1].status = 201) =>
                 key \in repos
            /\ Landed(p) > 0 => FileExists(key, "index.html")
            /\ Answered(p, 200) =>
                 /\ resp[p].detail.repo = <<GITHUB_USER, key>>
                 /\ response_payload[p].repo_url = RepoUrl(key)
            /\ (/\ aborted[p].writes > 0
                /\ aborted[p].payload.task = payload[p].task
                /\ aborted[p].payload.nonce = payload[p].nonce
                /\ Len(calls[p]) >= 1) => calls[p][1].status \in {422, 500}

\* a request with the nine-character nonce succeeded on a repository that an
\* earlier request had created
C15_Witness ==
  \E p \in Workers :
    /\ Answered(p, 200)
    /\ Len(payload[p].nonce) = 9
    /\ calls[p][1].status = 422
    /\ resp[p].detail.repo = <<GITHUB_USER, ExpectedKey(payload[p].task,
                                                        payload[p].nonce)>>

\* C16: only an absent file is treated as not found: when a file read (the
\* round-2 read of index.html or the probe of push_file) is answered with a
\* failure status other than 404 while the file exists, the request is
\* answered 500; it neither generates from empty prior content nor issues a
\* write without token for a file that exists.
C16_ReadFailureIsFatal ==
  \A p \in Workers :
    Authorized(p) =>
      /\ (/\ calls[p] # <<>>
          /\ calls[p][Len(calls[p])].method = "GET"
          /\ calls[p][Len(calls[p])].status \notin {200, 404}
          /\ FileExists(Repo(p), calls[p][Len(calls[p])].path)) =>
           Answered(p, 500)
      /\ (/\ payload[p].round = 2 /\ generated[p] # <<>> /\ Landed(p) = 0
          /\ FileExists(Repo(p), "index.html")) =>
           Truthy(generated[p][1].existing_code)
      /\ (/\ pc[p] = "push_put"
          /\ FileExists(Repo(p),
                        PushArgs(payload[p], local[p].html_content,
                                 local[p].k).file_path)) =>
           "sha" \in DOMAIN local[p].data

\* --------------------------------------------------- concurrent requests
\* the request of the worker is being handled
InFlight(p) == pc[p] \notin {"idle", "done"}

\* the requests at hand are well-formed, with the long nonce, and alike but
\* for the round, and those in flight together have the same round
SameRequests ==
  \A p \in Workers :
    Active(p) =>
      /\ ~SecretMismatch(payload[p].secret)
      /\ payload[p].round \in {1, 2}
      /\ ~GeneratorRaises(payload[p].attachments)
      /\ Len(payload[p].nonce) > 8
      /\ \A q \in Workers :
           Active(q) =>
             /\ payload[q] = [payload[p] EXCEPT !.round = payload[q].round]
             /\ (InFlight(p) /\ InFlight(q)) =>
                  payload[q].round = payload[p].round

\* several worker processes handle requests for the same task, nonce and
\* round at the same time, their store calls interleaved; the store fails
\* only on a missing or stale version token
NextConc ==
  \E p \in Workers : Step(p) /\ NoFault(p)' /\ SameRequests'

SpecConc == Init /\ [][NextConc]_vars

\* the file the worker is pushing
PushPath(p) == PushArgs(payload[p], local[p].html_content, local[p].k).file_path

\* the version tokens the PUT at hand carries: one or none
Carried(p) ==
  IF "sha" \in DOMAIN local[p].data THEN {local[p].data.sha} ELSE {}

\* the version tokens of the file the worker is pushing, as the store has
\* them now: one or none
Current(p) ==
  IF FileExists(Repo(p), PushPath(p))
  THEN {BlobSha(files[Repo(p)][PushPath(p)])}
  ELSE {}

\* C17 as stated: in every interleaving of two requests with the same task,
\* nonce and round, each PUT carries the version token current when the
\* store processes it, no write is rejected and both requests end in success.
C17_NoWriteRejected ==
  \A p \in Workers :
    Active(p) =>
      /\ pc[p] = "push_put" => Carried(p) = Current(p)
      /\ \A i \in Puts(p) : calls[p][i].status \in {200, 201}
      /\ pc[p] = "done" => resp[p].status_code = 200

\* C17, amended: each PUT carries the version token that was current when
\* push_file probed the file; the token goes stale only when another
\* request's write lands between the probe and the PUT, the store then
\* rejects the PUT with 409 or 422 and the request is answered 500; a request
\* with no write rejected ends in success.
C17_RejectedOnlyWhenOvertaken ==
  /\ [](\A p \in Workers :
          Active(p) =>
            /\ \A i \in Puts(p) : calls[p][i].status \in {200, 201, 409, 422}
            /\ \A i \in Puts(p) :
                 calls[p][i].status \in {409, 422} =>
                   i = Len(calls[p]) /\ Answered(p, 500)
            /\ pc[p] = "done" =>
                 \/ resp[p].status_code = 200
                 \/ /\ resp[p].status_code = 500
                    /\ calls[p][Len(calls[p])].method = "PUT"
                    /\ calls[p][Len(calls[p])].status \in {409, 422})
  /\ [][\A p \in Workers :
          /\ (pc[p] = "push_get" /\ pc'[p] = "push_put") =>
               Carried(p)' = Current(p)'
          /\ (/\ pc[p] = "push_put" /\ pc'[p] = "push_put"
              /\ Carried(p) = Current(p)
              /\ Carried(p)' # Current(p)') =>
               \E q \in Workers \ {p} : Landed(q)' = Landed(q) + 1]_vars

\* of two requests handled together one succeeded and the other, overtaken
\* between probe and PUT, was rejected
C17_Witness ==
  \E p, q \in Workers :
    /\ Answered(p, 200)
    /\ Answered(q, 500)
    /\ calls[q][Len(calls[q])].method = "PUT"
    /\ calls[q][Len(calls[q])].status \in {409, 422}
    /\ payload[p] = payload[q]

\* C18: whenever a request ends in success and a notification payload with
\* a pages_url is scheduled, static hosting is enabled for the repository the
\* pages_url names, after any sequence of requests.
C18_SuccessMeansHosted ==
  \A p \in Workers :
    Answered(p, 200) =>
      \A r \in RepoNames :
        response_payload[p].pages_url = PagesUrl(r) => r \in pages

====
